---- MODULE Spec2Model ----
(***************************************************************************)
(* Retrieval ranking and evaluation metrics of the academic RAG system:    *)
(* MetricsCalculator, SemanticRetriever and Evaluator                      *)
(* (src/src/evaluation.py, src/src/retrieval.py).                          *)
(*                                                                         *)
(* Floats are modelled as exact rationals <<numerator, denominator>> with  *)
(* a positive denominator; 1/log2(i+1) is a fixed-point table.             *)
(***************************************************************************)
EXTENDS Integers, Sequences, FiniteSets, TLC

VARIABLES
    retrieved,      \* MetricsCalculator argument: ranked list of document ids
    relevant,       \* MetricsCalculator argument: ground-truth set
    k,              \* MetricsCalculator argument: cutoff
    result,         \* the last call made from outside and what it returned
    store,          \* the vector store: for each query its chunks, nearest first
    store_calls,    \* the calls of EmbeddingManager.query so far: <<query, k>>
    k_values,       \* Evaluator.k_values
    deduplicate,    \* Evaluator.deduplicate
    min_similarity, \* Evaluator.min_similarity
    test_queries,   \* evaluate_batch: its argument
    query_results,  \* evaluate_batch: the QueryResults collected so far
    batch_result,   \* evaluate_batch: the dict it returned
    pc              \* evaluate_batch: "idle", "loop", "returned" or "raised"

metric_args == <<retrieved, relevant, k>>

store_vars == <<store, store_calls>>

evaluator_config == <<k_values, deduplicate, min_similarity>>

batch_vars == <<test_queries, query_results, batch_result, pc>>

vars == <<retrieved, relevant, k, result, store, store_calls,
          k_values, deduplicate, min_similarity,
          test_queries, query_results, batch_result, pc>>

----------------------------------------------------------------------------
\* Bounds of the model

\* longest ranked list handed to a metric
MaxLen == 3
\* largest cutoff k (cutoffs start at -1)
MaxK == 5
\* document identifiers
Docs == {"a", "b", "c"}

Ks == -1 .. MaxK

\* graded relevance scores 0.0, 1.0 and 2.0
Scores == 0 .. 2

\* ranked lists, duplicates allowed
RankedLists == UNION {[1..n -> Docs] : n \in 0..MaxLen}

\* relevance_scores: None and {} are the function with the empty domain
ScoreMaps == UNION {[D -> Scores] : D \in SUBSET Docs}

\* the orders in which the set or dict keys S can be enumerated
IterationOrders(S) == {o \in [1..Cardinality(S) -> S] :
                        \A i, j \in DOMAIN o : i /= j => o[i] /= o[j]}

----------------------------------------------------------------------------
\* Python values

\* float division n / d, d /= 0, as an exact rational with positive denominator
Div(n, d) == IF d < 0 THEN <<-n, -d>> ELSE <<n, d>>

\* the float 0.0
Zero == <<0, 1>>

\* x == y, x <= y, x < y on rationals
RatEq(x, y) == x[1] * y[2] = y[1] * x[2]
RatLeq(x, y) == x[1] * y[2] <= y[1] * x[2]
RatLess(x, y) == x[1] * y[2] < y[1] * x[2]

\* s[:n], also for negative n (which drops the last -n elements)
Slice(s, n) ==
    IF n >= 0
    THEN SubSeq(s, 1, IF n < Len(s) THEN n ELSE Len(s))
    ELSE SubSeq(s, 1, IF Len(s) + n > 0 THEN Len(s) + n ELSE 0)

\* len([doc for doc in s if doc in relevant_set])
CountRelevant(s, relevant_set) ==
    Len(SelectSeq(s, LAMBDA doc : doc \in relevant_set))

\* a variant that gives every rank the discount of rank 1
FlatDiscount(i) == <<100, 100, 100, 100, 100, 100, 100, 100, 100, 100>>[i]

\* 100 / log2(i + 1), rounded: the discount of rank i in hundredths
Discount(i) == <<100, 63, 50, 43, 39, 36, 33, 32, 30, 29>>[i]

\* the members of S in the enumeration order `order`
Enumerate(S, order) == SelectSeq(order, LAMBDA doc : doc \in S)

----------------------------------------------------------------------------
\* MetricsCalculator

\* a variant that divides by the length of the list when it is shorter than k
precision_over_short_list(retrieved_, relevant_, k_) ==
    IF k_ <= 0 \/ retrieved_ = <<>>
    THEN Zero
    ELSE Div(CountRelevant(Slice(retrieved_, k_), relevant_),
             IF k_ < Len(retrieved_) THEN k_ ELSE Len(retrieved_))

\* a variant that counts the relevant entries of the whole list
precision_of_whole_list(retrieved_, relevant_, k_) ==
    IF k_ <= 0 \/ retrieved_ = <<>>
    THEN Zero
    ELSE Div(CountRelevant(retrieved_, relevant_), k_)

precision_at_k(retrieved_, relevant_, k_) ==
    IF k_ <= 0 \/ retrieved_ = <<>>
    THEN Zero
    ELSE Div(CountRelevant(Slice(retrieved_, k_), relevant_), k_)

\* a variant that divides by k, as precision does
recall_over_k(retrieved_, relevant_, k_) ==
    IF relevant_ = {} \/ k_ <= 0 \/ retrieved_ = <<>>
    THEN Zero
    ELSE Div(CountRelevant(Slice(retrieved_, k_), relevant_), k_)

\* a variant that looks at one entry too few: retrieved[:k - 1]
recall_of_short_slice(retrieved_, relevant_, k_) ==
    IF relevant_ = {} \/ k_ <= 0 \/ retrieved_ = <<>>
    THEN Zero
    ELSE Div(CountRelevant(Slice(retrieved_, k_ - 1), relevant_),
             Cardinality(relevant_))

recall_at_k(retrieved_, relevant_, k_) ==
    IF relevant_ = {} \/ k_ <= 0 \/ retrieved_ = <<>>
    THEN Zero
    ELSE Div(CountRelevant(Slice(retrieved_, k_), relevant_),
             Cardinality(relevant_))

\* the rank of the first relevant document at or after rank `rank`, 0 if none
RECURSIVE FirstRelevantRank(_, _, _)
FirstRelevantRank(retrieved_, relevant_, rank) ==
    IF rank > Len(retrieved_) THEN 0
    ELSE IF retrieved_[rank] \in relevant_ THEN rank
    ELSE FirstRelevantRank(retrieved_, relevant_, rank + 1)

\* a variant that keeps scanning and returns the rank of the last hit
reciprocal_rank_of_last_hit(retrieved_, relevant_) ==
    LET hits == {i \in DOMAIN retrieved_ : retrieved_[i] \in relevant_}
    IN  IF hits = {} THEN Zero
        ELSE Div(1, CHOOSE i \in hits : \A j \in hits : j <= i)

mean_reciprocal_rank(retrieved_, relevant_) ==
    IF retrieved_ = <<>> \/ relevant_ = {}
    THEN Zero
    ELSE LET rank == FirstRelevantRank(retrieved_, relevant_, 1)
         IN  IF rank = 0 THEN Zero ELSE Div(1, rank)

\* rel of one document: graded when a score is known, binary otherwise
Rel(doc, relevant_, relevance_scores) ==
    IF DOMAIN relevance_scores /= {} /\ doc \in DOMAIN relevance_scores
    THEN relevance_scores[doc]
    ELSE IF doc \in relevant_ THEN 1 ELSE 0

\* the loop of dcg_at_k over retrieved[:k], from rank i on
RECURSIVE DcgLoop(_, _, _, _)
DcgLoop(top, relevant_, relevance_scores, i) ==
    IF i > Len(top) THEN 0
    ELSE Rel(top[i], relevant_, relevance_scores) * Discount(i)
         + DcgLoop(top, relevant_, relevance_scores, i + 1)

\* a variant that sums the gains of the whole list, in hundredths
dcg_of_whole_list(retrieved_, relevant_, k_, relevance_scores) ==
    IF k_ <= 0 \/ retrieved_ = <<>>
    THEN 0
    ELSE DcgLoop(retrieved_, relevant_, relevance_scores, 1)

\* DCG@K in hundredths
dcg_at_k(retrieved_, relevant_, k_, relevance_scores) ==
    IF k_ <= 0 \/ retrieved_ = <<>>
    THEN 0
    ELSE DcgLoop(Slice(retrieved_, k_), relevant_, relevance_scores, 1)

\* sorted(relevance_scores.items(), key=score, reverse=True), the documents:
\* a stable sort, so equal scores stay in the dict's order
RECURSIVE SortedByScore(_, _, _)
SortedByScore(relevance_scores, remaining, order) ==
    IF remaining = {} THEN <<>>
    ELSE LET rest == Enumerate(remaining, order)
             first == CHOOSE i \in DOMAIN rest :
                        /\ \A j \in DOMAIN rest :
                             relevance_scores[rest[j]] <= relevance_scores[rest[i]]
                        /\ \A j \in 1..(i - 1) :
                             relevance_scores[rest[j]] < relevance_scores[rest[i]]
         IN  <<rest[first]>> \o
             SortedByScore(relevance_scores, remaining \ {rest[first]}, order)

\* what ndcg_at_k enumerates to build the ideal ranking: the dict
\* relevance_scores when it is given and not empty, else the set relevant
Enumerated(relevant_, relevance_scores) ==
    IF DOMAIN relevance_scores /= {} THEN DOMAIN relevance_scores ELSE relevant_

\* a variant that takes the scored documents in the dict's order, unsorted
ideal_docs_unsorted(relevant_, k_, relevance_scores, order) ==
    IF DOMAIN relevance_scores /= {}
    THEN Slice(Enumerate(DOMAIN relevance_scores, order), k_)
    ELSE Slice(Enumerate(relevant_, order), k_)

\* a variant whose ideal ranking is one document short: [:k - 1]
ideal_docs_one_short(relevant_, k_, relevance_scores, order) ==
    IF DOMAIN relevance_scores /= {}
    THEN Slice(SortedByScore(relevance_scores, DOMAIN relevance_scores, order),
               k_ - 1)
    ELSE Slice(Enumerate(relevant_, order), k_ - 1)

\* the ideal ranking; `order` is the enumeration order of the dict
\* relevance_scores, or of the set relevant in list(relevant)
ideal_docs(relevant_, k_, relevance_scores, order) ==
    IF DOMAIN relevance_scores /= {}
    THEN Slice(SortedByScore(relevance_scores, DOMAIN relevance_scores, order), k_)
    ELSE Slice(Enumerate(relevant_, order), k_)

\* a variant that divides by the ideal DCG without testing it for 0
ndcg_dividing_by_any_idcg(retrieved_, relevant_, k_, relevance_scores, order) ==
    IF k_ <= 0 \/ retrieved_ = <<>> \/ relevant_ = {}
    THEN Zero
    ELSE LET dcg == dcg_at_k(retrieved_, relevant_, k_, relevance_scores)
             idcg == dcg_at_k(ideal_docs(relevant_, k_, relevance_scores, order),
                              relevant_, k_, relevance_scores)
         IN  Div(dcg, idcg)

\* a variant that does not return early on an empty relevant set
ndcg_ignoring_empty_relevant(retrieved_, relevant_, k_, relevance_scores, order) ==
    IF k_ <= 0 \/ retrieved_ = <<>>
    THEN Zero
    ELSE LET dcg == dcg_at_k(retrieved_, relevant_, k_, relevance_scores)
             idcg == dcg_at_k(ideal_docs(relevant_, k_, relevance_scores, order),
                              relevant_, k_, relevance_scores)
         IN  IF idcg = 0 THEN Zero ELSE Div(dcg, idcg)

ndcg_at_k(retrieved_, relevant_, k_, relevance_scores, order) ==
    IF k_ <= 0 \/ retrieved_ = <<>> \/ relevant_ = {}
    THEN Zero
    ELSE LET dcg == dcg_at_k(retrieved_, relevant_, k_, relevance_scores)
             idcg == dcg_at_k(ideal_docs(relevant_, k_, relevance_scores, order),
                              relevant_, k_, relevance_scores)
         IN  IF idcg = 0 THEN Zero ELSE Div(dcg, idcg)

----------------------------------------------------------------------------
\* Calls of the MetricsCalculator functions on bounded inputs

NotCalled == [fn |-> "none"]

\* no vector store and no Evaluator: the MetricsCalculator functions are static
NoStore ==
    /\ store = <<>>
    /\ store_calls = <<>>

\* evaluate_batch has not been called
NoBatch ==
    /\ test_queries = <<>>
    /\ query_results = <<>>
    /\ batch_result = NotCalled
    /\ pc = "idle"

NoEvaluator ==
    /\ k_values = <<>>
    /\ deduplicate = FALSE
    /\ min_similarity = 0

MetricsInit ==
    /\ retrieved \in RankedLists
    /\ relevant \in SUBSET Docs
    /\ k \in Ks
    /\ result = NotCalled
    /\ NoStore
    /\ NoEvaluator
    /\ NoBatch

CallPrecision ==
    /\ result = NotCalled
    /\ result' = [fn |-> "precision_at_k",
                  value |-> precision_at_k(retrieved, relevant, k)]
    /\ UNCHANGED <<metric_args, store_vars, evaluator_config, batch_vars>>

CallRecall ==
    /\ result = NotCalled
    /\ result' = [fn |-> "recall_at_k",
                  value |-> recall_at_k(retrieved, relevant, k)]
    /\ UNCHANGED <<metric_args, store_vars, evaluator_config, batch_vars>>

CallMRR ==
    /\ result = NotCalled
    /\ result' = [fn |-> "mean_reciprocal_rank",
                  value |-> mean_reciprocal_rank(retrieved, relevant)]
    /\ UNCHANGED <<metric_args, store_vars, evaluator_config, batch_vars>>

CallNDCG ==
    /\ result = NotCalled
    /\ \E relevance_scores \in ScoreMaps :
       \E order \in IterationOrders(Enumerated(relevant, relevance_scores)) :
         result' = [fn |-> "ndcg_at_k",
                    relevance_scores |-> relevance_scores,
                    value |-> ndcg_at_k(retrieved, relevant, k,
                                        relevance_scores, order)]
    /\ UNCHANGED <<metric_args, store_vars, evaluator_config, batch_vars>>

MetricsNext == CallPrecision \/ CallRecall \/ CallMRR \/ CallNDCG

SpecMetrics == MetricsInit /\ [][MetricsNext]_vars

----------------------------------------------------------------------------
\* The vector store (EmbeddingManager.query over the Chroma collection)

\* longest list of chunks the store holds for a query
MaxResponse == 4
\* largest k a retriever method is called with
MaxRetrieveK == 2
\* the k arguments of the retriever methods: any integer, also 0 and below
RetrieveKs == -1..MaxRetrieveK

Queries == {"q1", "q2"}

Sources == {"a", "b"}

\* distances 0.0, 1.0 and 2.0, so 1 - distance is 1.0, 0.0 or -1.0
Distances == {0, 1, 2}

\* a metadata dict without the key "source"
NoMetadata == [key \in {} |-> ""]

\* one chunk of the store's answer: its metadata dict and its distance
StoreItems == [metadata : {[source |-> s] : s \in Sources} \cup {NoMetadata},
               distance : Distances]

\* the store ranks by ascending distance
Rankings(longest) ==
    {r \in UNION {[1..n -> StoreItems] : n \in 0..longest} :
        \A i \in 1..(Len(r) - 1) : r[i].distance <= r[i + 1].distance}

\* what EmbeddingManager.query(query, k=n) returns when the store answers: the
\* n nearest chunks of the query
manager_query(query, n) == Slice(store[query], IF n > 0 THEN n ELSE 0)

----------------------------------------------------------------------------
\* SemanticRetriever

\* metadata.get("source", "unknown")
metadata_source(metadata) ==
    IF "source" \in DOMAIN metadata THEN metadata.source ELSE "unknown"

\* a variant that never reports a negative similarity
ResultItemClamped(item) ==
    [source |-> metadata_source(item.metadata),
     distance |-> item.distance,
     similarity_score |-> IF item.distance > 1 THEN 0 ELSE 1 - item.distance]

\* the result dict built from one chunk (text and chunk_index are copied
\* from the chunk and read by nothing modelled here)
ResultItem(item) ==
    [source |-> metadata_source(item.metadata),
     distance |-> item.distance,
     similarity_score |-> 1 - item.distance]

retrieve(query, k_) ==
    LET response == manager_query(query, k_)
    IN  [i \in DOMAIN response |-> ResultItem(response[i])]

\* a variant of the loop that never stops early
RECURSIVE DedupLoopWithoutBreak(_, _, _, _, _)
DedupLoopWithoutBreak(response, k_, i, seen_sources, results) ==
    IF i > Len(response) THEN results
    ELSE LET source == metadata_source(response[i].metadata)
         IN  IF source \notin seen_sources
             THEN DedupLoopWithoutBreak(response, k_, i + 1,
                                        seen_sources \cup {source},
                                        Append(results, ResultItem(response[i])))
             ELSE DedupLoopWithoutBreak(response, k_, i + 1, seen_sources, results)

\* the loop of retrieve_by_source over the store's answer, from chunk i on
RECURSIVE DedupLoop(_, _, _, _, _)
DedupLoop(response, k_, i, seen_sources, results) ==
    IF i > Len(response) THEN results
    ELSE LET source == metadata_source(response[i].metadata)
         IN  IF source \notin seen_sources
             THEN LET longer == Append(results, ResultItem(response[i]))
                  IN  IF Len(longer) >= k_
                      THEN longer
                      ELSE DedupLoop(response, k_, i + 1,
                                     seen_sources \cup {source}, longer)
             ELSE DedupLoop(response, k_, i + 1, seen_sources, results)

\* a variant that over-fetches for at least one result
initial_k_at_least_three(k_, unique_sources) ==
    IF unique_sources THEN (IF k_ < 1 THEN 1 ELSE k_) * 3 ELSE k_

\* the k handed to EmbeddingManager.query by retrieve_by_source
initial_k(k_, unique_sources) == IF unique_sources THEN k_ * 3 ELSE k_

retrieve_by_source(query, k_, unique_sources) ==
    IF ~unique_sources
    THEN retrieve(query, k_)
    ELSE DedupLoop(manager_query(query, initial_k(k_, TRUE)), k_, 1, {}, <<>>)

----------------------------------------------------------------------------
\* RankedRetriever

\* retrieve_and_rank(query, k, min_similarity, max_results); max_results is
\* <<>> for None and <<n>> for the integer n
retrieve_and_rank(query, k_, min_similarity_, max_results) ==
    LET found == retrieve(query, k_)
        kept == IF min_similarity_ > 0
                THEN SelectSeq(found,
                               LAMBDA r : r.similarity_score >= min_similarity_)
                ELSE found
    IN  IF /\ max_results /= <<>>
           /\ max_results[1] /= 0
           /\ Len(kept) > max_results[1]
        THEN Slice(kept, max_results[1])
        ELSE kept

----------------------------------------------------------------------------
\* Calls of the retriever methods on a bounded store

RetrieverInit ==
    /\ \E ranking \in Rankings(MaxResponse) : store = [q \in Queries |-> ranking]
    /\ store_calls = <<>>
    /\ result = NotCalled
    /\ retrieved = <<>> /\ relevant = {} /\ k = 0
    /\ NoEvaluator
    /\ NoBatch

CallRetrieve ==
    /\ result = NotCalled
    /\ \E query \in Queries, k_ \in RetrieveKs :
         /\ store_calls' = Append(store_calls, <<query, k_>>)
         /\ result' = [fn |-> "retrieve", query |-> query, k |-> k_,
                       raised |-> FALSE,
                       response |-> manager_query(query, k_),
                       results |-> retrieve(query, k_)]
    /\ UNCHANGED <<metric_args, store, evaluator_config, batch_vars>>

CallRetrieveBySource ==
    /\ result = NotCalled
    /\ \E query \in Queries, k_ \in RetrieveKs, unique_sources \in BOOLEAN :
         /\ store_calls' = Append(store_calls,
                                  <<query, initial_k(k_, unique_sources)>>)
         /\ result' = [fn |-> "retrieve_by_source", query |-> query, k |-> k_,
                       unique_sources |-> unique_sources,
                       raised |-> FALSE,
                       response |-> manager_query(query,
                                                  initial_k(k_, unique_sources)),
                       results |-> retrieve_by_source(query, k_, unique_sources)]
    /\ UNCHANGED <<metric_args, store, evaluator_config, batch_vars>>

\* min_similarity arguments of retrieve_and_rank: -1.0, 0.0 and 1.0
SimilarityThresholds == {-1, 0, 1}

\* max_results arguments of retrieve_and_rank: None, or an integer
MaxResultsArgs == {<<>>} \cup {<<n>> : n \in -1..MaxRetrieveK}

CallRetrieveAndRank ==
    /\ result = NotCalled
    /\ \E query \in Queries, k_ \in RetrieveKs,
          min_similarity_ \in SimilarityThresholds,
          max_results \in MaxResultsArgs :
         /\ store_calls' = Append(store_calls, <<query, k_>>)
         /\ result' = [fn |-> "retrieve_and_rank", query |-> query, k |-> k_,
                       min_similarity |-> min_similarity_,
                       max_results |-> max_results,
                       raised |-> FALSE,
                       response |-> manager_query(query, k_),
                       found |-> retrieve(query, k_),
                       results |-> retrieve_and_rank(query, k_, min_similarity_,
                                                     max_results)]
    /\ UNCHANGED <<metric_args, store, evaluator_config, batch_vars>>

\* the calls that reach the store: the method and its unique_sources
\* argument (FALSE for the methods without one, which ask for k itself)
RetrieverCalls ==
    {[fn |-> "retrieve", unique_sources |-> FALSE],
     [fn |-> "retrieve_and_rank", unique_sources |-> FALSE]} \cup
    {[fn |-> "retrieve_by_source", unique_sources |-> u] : u \in BOOLEAN}

\* the store raises, and the retriever method lets the exception through
CallRetrieverStoreRaises ==
    /\ result = NotCalled
    /\ \E query \in Queries, k_ \in RetrieveKs,
          call \in RetrieverCalls :
         /\ store_calls' = Append(store_calls,
                                  <<query, initial_k(k_, call.unique_sources)>>)
         /\ result' = [fn |-> call.fn, query |-> query, k |-> k_,
                       unique_sources |-> call.unique_sources,
                       raised |-> TRUE]
    /\ UNCHANGED <<metric_args, store, evaluator_config, batch_vars>>

RetrieverNext ==
    \/ CallRetrieve
    \/ CallRetrieveBySource
    \/ CallRetrieveAndRank
    \/ CallRetrieverStoreRaises

SpecRetriever == RetrieverInit /\ [][RetrieverNext]_vars

----------------------------------------------------------------------------
\* Evaluator

\* k_values or [1, 3, 5, 10]
Evaluator_k_values(k_values_arg) ==
    IF k_values_arg = <<>> THEN <<1, 3, 5, 10>> ELSE k_values_arg

\* max(self.k_values)
max_k_values ==
    CHOOSE kk \in {k_values[i] : i \in DOMAIN k_values} :
        \A i \in DOMAIN k_values : k_values[i] <= kk

\* a variant that reports every configured k, also those above k_max
AllConfiguredKeys(k_max) == {k_values[i] : i \in DOMAIN k_values}

\* the keys evaluate_query fills: for k in self.k_values: if k <= k_max
MetricKeys(k_max) ==
    {k_values[i] : i \in {j \in DOMAIN k_values : k_values[j] <= k_max}}

\* a variant that also drops the items exactly at the threshold
FilterAboveSimilarity(results) ==
    IF min_similarity > 0
    THEN SelectSeq(results, LAMBDA r : r.similarity_score > min_similarity)
    ELSE results

\* a variant that hands the kept items back in reverse order
FilterAndReverse(results) ==
    LET kept == IF min_similarity > 0
                THEN SelectSeq(results,
                               LAMBDA r : r.similarity_score >= min_similarity)
                ELSE results
    IN  [i \in DOMAIN kept |-> kept[Len(kept) + 1 - i]]

\* a variant that compares the threshold with the distance of an item
FilterByDistance(results) ==
    IF min_similarity > 0
    THEN SelectSeq(results, LAMBDA r : r.distance >= min_similarity)
    ELSE results

\* the minimum-similarity filter of evaluate_query
FilterBySimilarity(results) ==
    IF min_similarity > 0
    THEN SelectSeq(results, LAMBDA r : r.similarity_score >= min_similarity)
    ELSE results

\* a variant that asks the store for k_max items whatever deduplicate is
store_k_without_overfetch(k_max) == k_max

\* the k evaluate_query hands to EmbeddingManager.query
evaluate_query_store_k(k_max) ==
    IF deduplicate THEN initial_k(k_max, TRUE) ELSE k_max

\* the QueryResult of evaluate_query when the store answers; `order` is the
\* enumeration order of relevant_docs (a set) or of relevance_scores (a dict)
evaluate_query(query, relevant_docs, k_max, relevance_scores, order) ==
    LET found == IF deduplicate
                 THEN retrieve_by_source(query, k_max, TRUE)
                 ELSE retrieve(query, k_max)
        results == FilterBySimilarity(found)
        retrieved_docs == [i \in DOMAIN results |-> results[i].source]
        keys == MetricKeys(k_max)
    IN  [query |-> query,
         retrieved_docs |-> retrieved_docs,
         relevant_docs |-> relevant_docs,
         metrics |->
            [precision_at_k |->
                [kk \in keys |-> precision_at_k(retrieved_docs, relevant_docs, kk)],
             recall_at_k |->
                [kk \in keys |-> recall_at_k(retrieved_docs, relevant_docs, kk)],
             mrr |-> mean_reciprocal_rank(retrieved_docs, relevant_docs),
             ndcg_at_k |->
                [kk \in keys |-> ndcg_at_k(retrieved_docs, relevant_docs, kk,
                                           relevance_scores, order)]]]

----------------------------------------------------------------------------
\* Calls of Evaluator.evaluate_query on a bounded store

\* longest list of chunks the store holds for a query under an Evaluator
MaxEvalResponse == 2
\* largest k of a k_values argument (an empty argument selects the default)
MaxKValue == 2
\* largest k_max evaluate_query is called with (k_max starts at 1)
MaxKMax == 2

\* k_values arguments: ascending lists, and the empty list
KValueArgs ==
    {<<>>} \cup
    {s \in UNION {[1..n -> 1..MaxKValue] : n \in 1..MaxKValue} :
        \A i \in 1..(Len(s) - 1) : s[i] < s[i + 1]}

\* min_similarity arguments: -1.0, 0.0 and 1.0
MinSimilarities == {-1, 0, 1}

\* relevance_scores arguments of an evaluation: none, or graded scores
EvalScoreMaps == {<<>>, [a |-> 2, b |-> 1]}

NewEvaluator ==
    /\ \E k_values_arg \in KValueArgs : k_values = Evaluator_k_values(k_values_arg)
    /\ deduplicate \in BOOLEAN
    /\ min_similarity \in MinSimilarities

EvaluatorInit ==
    /\ NewEvaluator
    /\ \E ranking \in Rankings(MaxEvalResponse) : store = [q \in Queries |-> ranking]
    /\ store_calls = <<>>
    /\ result = NotCalled
    /\ retrieved = <<>> /\ relevant = {} /\ k = 0
    /\ NoBatch

CallEvaluateQuery ==
    /\ result = NotCalled
    /\ \E relevant_docs \in SUBSET Sources, k_max \in 1..MaxKMax,
          relevance_scores \in EvalScoreMaps :
       \E order \in IterationOrders(Enumerated(relevant_docs, relevance_scores)) :
         /\ store_calls' = Append(store_calls,
                                  <<"q1", evaluate_query_store_k(k_max)>>)
         /\ result' = [fn |-> "evaluate_query", k_max |-> k_max,
                       relevance_scores |-> relevance_scores,
                       raised |-> FALSE,
                       response |-> manager_query("q1", evaluate_query_store_k(k_max)),
                       returned |-> evaluate_query("q1", relevant_docs, k_max,
                                                   relevance_scores, order)]
    /\ UNCHANGED <<metric_args, store, evaluator_config, batch_vars>>

\* the store raises, and evaluate_query lets the exception through
CallEvaluateQueryStoreRaises ==
    /\ result = NotCalled
    /\ \E k_max \in 1..MaxKMax :
         /\ store_calls' = Append(store_calls,
                                  <<"q1", evaluate_query_store_k(k_max)>>)
         /\ result' = [fn |-> "evaluate_query", k_max |-> k_max, raised |-> TRUE]
    /\ UNCHANGED <<metric_args, store, evaluator_config, batch_vars>>

EvaluatorNext == CallEvaluateQuery \/ CallEvaluateQueryStoreRaises

SpecEvaluator == EvaluatorInit /\ [][EvaluatorNext]_vars

----------------------------------------------------------------------------
\* Evaluator.evaluate_batch

\* the greatest common divisor of two naturals, not both 0
RECURSIVE Gcd(_, _)
Gcd(m, n) == IF n = 0 THEN m ELSE Gcd(n, m % n)

\* the same rational in lowest terms
Reduced(x) ==
    LET g == Gcd(IF x[1] < 0 THEN -x[1] ELSE x[1], x[2])
    IN  <<x[1] \div g, x[2] \div g>>

\* float addition x + y
Plus(x, y) == Reduced(<<x[1] * y[2] + y[1] * x[2], x[2] * y[2]>>)

\* sum(values), from the i-th value on
RECURSIVE Sum(_, _)
Sum(values, i) ==
    IF i > Len(values) THEN Zero ELSE Plus(values[i], Sum(values, i + 1))

\* a variant that averages over the values that are not 0.0 only
MeanOfNonZero(values) ==
    LET total == Sum(values, 1)
        counted == Len(SelectSeq(values, LAMBDA v : v[1] /= 0))
    IN  IF counted = 0 THEN Zero ELSE Reduced(<<total[1], total[2] * counted>>)

\* sum(values) / n with n = len(query_results), one value per query result
Mean(values) ==
    LET total == Sum(values, 1)
    IN  Reduced(<<total[1], total[2] * Len(values)>>)

\* d.get(key, default)
dict_get(d, key, default) == IF key \in DOMAIN d THEN d[key] ELSE default

\* the empty dict {}
EmptyDict == [key \in {} |-> Zero]

\* a variant without the early return for an empty list: it fills every
\* configured K with 0.0
aggregate_with_zero_keys(query_results_) ==
    LET keys == {k_values[i] : i \in DOMAIN k_values}
        zeros == [kk \in keys |-> Zero]
    IN  [precision_at_k |-> zeros, recall_at_k |-> zeros,
         mrr |-> Zero, ndcg_at_k |-> zeros]

\* Evaluator._aggregate_metrics(query_results)
_aggregate_metrics(query_results_) ==
    IF query_results_ = <<>>
    THEN [precision_at_k |-> EmptyDict, recall_at_k |-> EmptyDict,
          mrr |-> Zero, ndcg_at_k |-> EmptyDict]
    ELSE LET keys == {k_values[i] : i \in DOMAIN k_values}
         IN  [precision_at_k |->
                [kk \in keys |->
                    Mean([i \in DOMAIN query_results_ |->
                            dict_get(query_results_[i].metrics.precision_at_k,
                                     kk, Zero)])],
              recall_at_k |->
                [kk \in keys |->
                    Mean([i \in DOMAIN query_results_ |->
                            dict_get(query_results_[i].metrics.recall_at_k,
                                     kk, Zero)])],
              mrr |-> Mean([i \in DOMAIN query_results_ |->
                              query_results_[i].metrics.mrr]),
              ndcg_at_k |->
                [kk \in keys |->
                    Mean([i \in DOMAIN query_results_ |->
                            dict_get(query_results_[i].metrics.ndcg_at_k,
                                     kk, Zero)])]]

\* set(test_case['relevant_docs'])
set_of(list) == {list[i] : i \in DOMAIN list}

\* a variant that puts each new result in front of the earlier ones
collect_in_front(query_results_, query_result) == <<query_result>> \o query_results_

\* query_results.append(result)
collect(query_results_, query_result) == Append(query_results_, query_result)

\* a variant that sends the query of the batch's first test case for every
\* test case
batch_iteration_on_first_query(query_results_, test_case, order) ==
    collect(query_results_,
            [evaluate_query(test_queries[1].query, set_of(test_case.relevant_docs),
                            max_k_values, test_case.relevance_scores, order)
                EXCEPT !.query = test_case.query])

\* one iteration of the loop of evaluate_batch when the store answers
batch_iteration(query_results_, test_case, order) ==
    collect(query_results_,
            evaluate_query(test_case.query, set_of(test_case.relevant_docs),
                           max_k_values, test_case.relevance_scores, order))

\* the dict evaluate_batch returns
batch_return(test_queries_, query_results_) ==
    [query_results |-> query_results_,
     aggregate_metrics |-> _aggregate_metrics(query_results_),
     num_queries |-> Len(test_queries_),
     k_values |-> k_values]

----------------------------------------------------------------------------
\* Calls of Evaluator.evaluate_batch on a bounded store

\* most test cases in a batch
MaxBatch == 2

\* the lists of chunks the store holds for a query under a batch
BatchRankings ==
    {<<[metadata |-> [source |-> "a"], distance |-> 0],
       [metadata |-> [source |-> "a"], distance |-> 1],
       [metadata |-> [source |-> "b"], distance |-> 2]>>,
     <<[metadata |-> [source |-> "b"], distance |-> 0],
       [metadata |-> [source |-> "a"], distance |-> 1]>>}

\* test cases: {'query', 'relevant_docs'} with an optional 'relevance_scores'
\* (test_case.get('relevance_scores', None) is None when the key is absent)
TestCases ==
    {c \in [query : Queries,
            relevant_docs : {<<>>, <<"a">>, <<"a", "b", "a">>},
            relevance_scores : EvalScoreMaps] :
        c.relevance_scores /= <<>> => c.relevant_docs = <<"a", "b", "a">>}

Batches == UNION {[1..n -> TestCases] : n \in 0..MaxBatch}

BatchInit ==
    /\ NewEvaluator
    /\ store \in [Queries -> BatchRankings]
    /\ store_calls = <<>>
    /\ result = NotCalled
    /\ retrieved = <<>> /\ relevant = {} /\ k = 0
    /\ NoBatch

\* evaluate_batch(test_queries) up to its first store call; an empty batch
\* makes none and returns at once
CallEvaluateBatch ==
    /\ pc = "idle"
    /\ \E test_queries_ \in Batches :
         /\ test_queries' = test_queries_
         /\ query_results' = <<>>
         /\ IF test_queries_ = <<>>
            THEN /\ batch_result' = batch_return(test_queries_, <<>>)
                 /\ pc' = "returned"
            ELSE /\ batch_result' = batch_result
                 /\ pc' = "loop"
    /\ UNCHANGED <<metric_args, result, store_vars, evaluator_config>>

\* the store answers the query of the next test case: evaluate_batch runs on
\* to its next store call, or past the last test case to its return
BatchStoreAnswers ==
    /\ pc = "loop"
    /\ LET test_case == test_queries[Len(query_results) + 1]
       IN  \E order \in IterationOrders(Enumerated(set_of(test_case.relevant_docs),
                                                   test_case.relevance_scores)) :
             /\ store_calls' = Append(store_calls,
                                      <<test_case.query,
                                        evaluate_query_store_k(max_k_values)>>)
             /\ query_results' = batch_iteration(query_results, test_case, order)
             /\ IF Len(query_results') = Len(test_queries)
                THEN /\ batch_result' = batch_return(test_queries, query_results')
                     /\ pc' = "returned"
                ELSE /\ batch_result' = batch_result
                     /\ pc' = "loop"
    /\ UNCHANGED <<metric_args, result, store, test_queries, evaluator_config>>

\* a variant that catches the store's exception, records a result without
\* metrics for the test case and goes on with the batch
BatchStoreRaisesAndIsCaught ==
    /\ pc = "loop"
    /\ LET test_case == test_queries[Len(query_results) + 1]
           unscored == [query |-> test_case.query,
                        retrieved_docs |-> <<>>,
                        relevant_docs |-> set_of(test_case.relevant_docs),
                        metrics |-> [precision_at_k |-> EmptyDict,
                                     recall_at_k |-> EmptyDict,
                                     mrr |-> Zero,
                                     ndcg_at_k |-> EmptyDict]]
       IN  /\ store_calls' = Append(store_calls,
                                    <<test_case.query,
                                      evaluate_query_store_k(max_k_values)>>)
           /\ query_results' = Append(query_results, unscored)
           /\ IF Len(query_results') = Len(test_queries)
              THEN /\ batch_result' = batch_return(test_queries, query_results')
                   /\ pc' = "returned"
              ELSE /\ batch_result' = batch_result
                   /\ pc' = "loop"
    /\ UNCHANGED <<metric_args, result, store, test_queries, evaluator_config>>

\* a variant that answers a failure of the store by switching the
\* deduplication off for the calls to come
BatchStoreRaisesAndDisablesDedup ==
    /\ pc = "loop"
    /\ LET test_case == test_queries[Len(query_results) + 1]
       IN  store_calls' = Append(store_calls,
                                 <<test_case.query,
                                   evaluate_query_store_k(max_k_values)>>)
    /\ pc' = "raised"
    /\ deduplicate' = FALSE
    /\ UNCHANGED <<metric_args, result, store, test_queries, query_results,
                   batch_result, k_values, min_similarity>>

\* the store raises on the query of the next test case: the exception leaves
\* evaluate_query and evaluate_batch, which returns nothing
BatchStoreRaises ==
    /\ pc = "loop"
    /\ LET test_case == test_queries[Len(query_results) + 1]
       IN  store_calls' = Append(store_calls,
                                 <<test_case.query,
                                   evaluate_query_store_k(max_k_values)>>)
    /\ pc' = "raised"
    /\ UNCHANGED <<metric_args, result, store, test_queries, query_results,
                   batch_result, evaluator_config>>

BatchNext == CallEvaluateBatch \/ BatchStoreAnswers \/ BatchStoreRaises

SpecBatch == BatchInit /\ [][BatchNext]_vars

----------------------------------------------------------------------------
\* Calls of ndcg_at_k on a ranked list before and after its rank-5 entry is
\* moved to rank 1 (binary relevance: relevance_scores is None)

\* longest ranked list that is re-ranked
MaxMoveLen == 5
\* largest k of a call on a re-ranked list
MaxMoveK == 6

\* the list with the entry at rank i moved to rank 1; the other entries keep
\* their relative order
MoveToFront(list, i) ==
    <<list[i]>> \o SubSeq(list, 1, i - 1) \o SubSeq(list, i + 1, Len(list))

\* the documents of a re-ranked list
MoveDocs == {"a", "b", "c", "d", "e"}

\* the ranked lists that are re-ranked: every list without a repeated
\* document, and every list over two documents
RerankedLists ==
    UNION {{list \in [1..n -> MoveDocs] :
              \/ \A i, j \in 1..n : list[i] = list[j] => i = j
              \/ \A i \in 1..n : list[i] \in {"a", "b"}} : n \in 5..MaxMoveLen}

RerankInit ==
    /\ retrieved \in RerankedLists
    /\ relevant \in {S \in SUBSET MoveDocs : retrieved[5] \in S}
    /\ k \in 5..MaxMoveK
    /\ result = NotCalled
    /\ NoStore
    /\ NoEvaluator
    /\ NoBatch

\* ndcg_at_k(retrieved, relevant, k) on the list as first ranked
CallNDCGBeforeMove ==
    /\ result = NotCalled
    /\ \E order \in IterationOrders(relevant) :
         result' = [fn |-> "ndcg_at_k", moved |-> FALSE,
                    value |-> ndcg_at_k(retrieved, relevant, k, <<>>, order)]
    /\ UNCHANGED <<metric_args, store_vars, evaluator_config, batch_vars>>

\* the relevant rank-5 entry goes to rank 1 and ndcg_at_k is called again
CallNDCGAfterMove ==
    /\ result.fn = "ndcg_at_k"
    /\ ~result.moved
    /\ retrieved' = MoveToFront(retrieved, 5)
    /\ \E order \in IterationOrders(relevant) :
         result' = [fn |-> "ndcg_at_k", moved |-> TRUE,
                    before |-> result.value,
                    value |-> ndcg_at_k(retrieved', relevant, k, <<>>, order)]
    /\ UNCHANGED <<relevant, k, store_vars, evaluator_config, batch_vars>>

RerankNext == CallNDCGBeforeMove \/ CallNDCGAfterMove

SpecRerank == RerankInit /\ [][RerankNext]_vars

----------------------------------------------------------------------------
\* Two calls of Evaluator.evaluate_batch on one store: the second call gets
\* the test cases of the first in another order

\* the orders a batch of n test cases can be put in: position i of the
\* re-ordered batch holds the test case of position p[i]
Reorderings(n) == {p \in [1..n -> 1..n] : \A i, j \in 1..n : p[i] = p[j] => i = j}

\* a deterministic store that ranks differently for the two queries (the
\* nearest chunk of "q1" comes from source "a", that of "q2" from "b"), and
\* an Evaluator without a threshold (0.0) or with one (1.0)
ReorderedInit ==
    /\ NewEvaluator
    /\ min_similarity >= 0
    /\ store \in {s \in [Queries -> BatchRankings] :
                    /\ s["q1"][1].metadata.source = "a"
                    /\ s["q2"][1].metadata.source = "b"}
    /\ store_calls = <<>>
    /\ result = NotCalled
    /\ retrieved = <<>> /\ relevant = {} /\ k = 0
    /\ NoBatch

\* the caller keeps what the first call returned and calls evaluate_batch
\* again with the same test cases in another order
CallEvaluateBatchReordered ==
    /\ pc = "returned"
    /\ result = NotCalled
    /\ test_queries /= <<>>
    /\ \E p \in Reorderings(Len(test_queries)) :
         /\ test_queries /= [i \in 1..Len(test_queries) |-> test_queries[p[i]]]
         /\ result' = [fn |-> "evaluate_batch",
                       test_queries |-> test_queries,
                       reordering |-> p,
                       returned |-> batch_result]
         /\ test_queries' = [i \in 1..Len(test_queries) |-> test_queries[p[i]]]
    /\ query_results' = <<>>
    /\ batch_result' = NotCalled
    /\ pc' = "loop"
    /\ UNCHANGED <<metric_args, store_vars, evaluator_config>>

ReorderedNext ==
    \/ CallEvaluateBatch
    \/ BatchStoreAnswers
    \/ BatchStoreRaises
    \/ CallEvaluateBatchReordered

SpecReordered == ReorderedInit /\ [][ReorderedNext]_vars

----------------------------------------------------------------------------
\* A call of Evaluator.evaluate_batch that fails on the store, followed by a
\* call on the same Evaluator for one more test case

\* a deterministic store that ranks differently for the two queries, and an
\* Evaluator without a threshold (0.0) or with one (1.0)
RetryInit ==
    /\ NewEvaluator
    /\ min_similarity >= 0
    /\ store \in {s \in [Queries -> BatchRankings] :
                    /\ s["q1"][1].metadata.source = "a"
                    /\ s["q2"][1].metadata.source = "b"}
    /\ store_calls = <<>>
    /\ result = NotCalled
    /\ retrieved = <<>> /\ relevant = {} /\ k = 0
    /\ NoBatch

\* after the failed call the caller evaluates one test case for another
\* query with the same Evaluator
CallEvaluateBatchAfterFailure ==
    /\ pc = "raised"
    /\ result = NotCalled
    /\ \E test_queries_ \in [1..1 -> TestCases] :
         /\ test_queries_[1].query /= test_queries[Len(query_results) + 1].query
         /\ test_queries' = test_queries_
         /\ result' = [fn |-> "evaluate_batch", failed |-> test_queries,
                       failed_at |-> Len(query_results) + 1]
    /\ query_results' = <<>>
    /\ batch_result' = NotCalled
    /\ pc' = "loop"
    /\ UNCHANGED <<metric_args, store_vars, evaluator_config>>

RetryNext ==
    \/ CallEvaluateBatch
    \/ BatchStoreAnswers
    \/ BatchStoreRaises
    \/ CallEvaluateBatchAfterFailure

SpecRetry == RetryInit /\ [][RetryNext]_vars

----------------------------------------------------------------------------
\* Properties of the MetricsCalculator functions

\* the float 1.0
One == <<1, 1>>

InUnitInterval(x) == RatLeq(Zero, x) /\ RatLeq(x, One)

\* the ranks among the first k_ of retrieved_ that hold a relevant document
RelevantRanks(retrieved_, relevant_, k_) ==
    {i \in DOMAIN retrieved_ : i <= k_ /\ retrieved_[i] \in relevant_}

\* the relevant documents found among the first k_ of retrieved_
RelevantFound(retrieved_, relevant_, k_) ==
    {retrieved_[i] : i \in RelevantRanks(retrieved_, relevant_, k_)}

\* C1: recall_at_k(retrieved, relevant, k) lies in [0,1] for every ranked list
\* (duplicates allowed), every relevant set and every k.
C1_RecallInUnitInterval ==
    result.fn = "recall_at_k" => InUnitInterval(result.value)

\* C2: ndcg_at_k returns a value in [0,1] for every ranked list (duplicates
\* allowed), every relevant set, every k, with or without relevance_scores.
C2_NdcgInUnitInterval ==
    result.fn = "ndcg_at_k" => InUnitInterval(result.value)

\* C3: precision_at_k is 0.0 when k <= 0 or retrieved is empty, and otherwise
\* the number of relevant entries among the first k divided by k itself, never
\* by min(k, len(retrieved)); retrieved=[a], relevant={a}, k=5 gives 1/5.
C3_PrecisionDividesByK ==
    result.fn = "precision_at_k" =>
        /\ (k <= 0 \/ retrieved = <<>>) => result.value = Zero
        /\ (k > 0 /\ retrieved /= <<>>) =>
              /\ result.value[2] = k
              /\ result.value[1] = Cardinality(RelevantRanks(retrieved, relevant, k))
        /\ (retrieved = <<"a">> /\ relevant = {"a"} /\ k = 5) =>
              RatEq(result.value, <<1, 5>>)

C3_Witness ==
    /\ result.fn = "precision_at_k"
    /\ retrieved = <<"a">> /\ relevant = {"a"} /\ k = 5
    /\ result.value = <<1, 5>>

\* C4: recall_at_k is 0.0 when relevant is empty, k <= 0 or retrieved is
\* empty, and otherwise the fraction of the members of relevant found among
\* the first k entries, also for lists that repeat a source.
C4_RecallIsFractionOfRelevantFound ==
    result.fn = "recall_at_k" =>
        IF relevant = {} \/ k <= 0 \/ retrieved = <<>>
        THEN result.value = Zero
        ELSE RatEq(result.value,
                   <<Cardinality(RelevantFound(retrieved, relevant, k)),
                     Cardinality(relevant)>>)

\* C5: mean_reciprocal_rank is 1/r for the 1-based rank r of the first relevant
\* entry, 0.0 when there is none or an input is empty, and does not depend on
\* the relevance of the entries after rank r.
C5_MrrIsReciprocalOfFirstHit ==
    result.fn = "mean_reciprocal_rank" =>
        LET hits == RelevantRanks(retrieved, relevant, Len(retrieved))
        IN  IF hits = {}
            THEN result.value = Zero
            ELSE \E r \in hits :
                   /\ \A i \in hits : r <= i
                   /\ result.value = <<1, r>>
                   /\ \A other \in SUBSET Docs :
                        (\A i \in 1..r : retrieved[i] \in other <=> retrieved[i] \in relevant)
                        => mean_reciprocal_rank(retrieved, other) = result.value

C5_Witness ==
    /\ result.fn = "mean_reciprocal_rank"
    /\ retrieved = <<"b", "a", "c">> /\ relevant = {"a", "c"}
    /\ result.value = <<1, 2>>

----------------------------------------------------------------------------
\* Properties of SemanticRetriever

\* the positions of L that hold the first chunk of their source
FirstOccurrences(L) ==
    {i \in DOMAIN L :
        \A j \in 1..(i - 1) :
            metadata_source(L[j].metadata) /= metadata_source(L[i].metadata)}

\* the n smallest members of a set of positions
Smallest(positions, n) ==
    {i \in positions : Cardinality({j \in positions : j < i}) < n}

\* C6: retrieve_by_source(query, k, unique_sources=True) with k >= 1 returns
\* exactly the first min(k, number of distinct sources in L) first-occurrence
\* items of the store's list L, in L's order: no source twice, each kept item
\* the earliest of its source, at most k items, fewer when L has fewer sources.
C6_DedupKeepsFirstOccurrences ==
    (/\ result.fn = "retrieve_by_source"
     /\ ~result.raised
     /\ result.unique_sources
     /\ result.k >= 1) =>
        LET L == result.response
            firsts == FirstOccurrences(L)
            m == IF result.k < Cardinality(firsts)
                 THEN result.k ELSE Cardinality(firsts)
            kept == Smallest(firsts, m)
        IN  /\ Len(result.results) = m
            /\ Len(result.results) <= result.k
            /\ \A n \in 1..m :
                 \E i \in kept :
                    /\ Cardinality({j \in kept : j < i}) = n - 1
                    /\ result.results[n].source = metadata_source(L[i].metadata)
                    /\ result.results[n].distance = L[i].distance
            /\ \A n1, n2 \in DOMAIN result.results :
                 n1 /= n2 => result.results[n1].source /= result.results[n2].source

\* the spec's example: sources A, B, A, C and k = 2 give A, B
C6_Witness ==
    /\ result.fn = "retrieve_by_source"
    /\ ~result.raised
    /\ result.unique_sources
    /\ result.k = 2
    /\ [i \in DOMAIN result.response |->
          metadata_source(result.response[i].metadata)]
         = <<"a", "b", "a", "unknown">>
    /\ [i \in DOMAIN result.results |-> result.results[i].source] = <<"a", "b">>

----------------------------------------------------------------------------
\* Properties of Evaluator.evaluate_query

\* what the retrieval stage of the returned call produced from the store's
\* answer, before any threshold
RetrievalStage ==
    IF deduplicate
    THEN DedupLoop(result.response, result.k_max, 1, {}, <<>>)
    ELSE [i \in DOMAIN result.response |-> ResultItem(result.response[i])]

SourcesOf(results) == [i \in DOMAIN results |-> results[i].source]

\* C7: in evaluate_query, for every min_similarity (0.0 and negative values
\* included) and every store response, no item with similarity strictly below
\* min_similarity contributes to retrieved_docs, and every item at or above it
\* that survived retrieval and dedup is kept.
C7_NothingBelowMinSimilarityIsEvaluated ==
    (result.fn = "evaluate_query" /\ ~result.raised) =>
        result.returned.retrieved_docs =
            SourcesOf(SelectSeq(RetrievalStage,
                                LAMBDA r : ~(r.similarity_score < min_similarity)))

\* C9: in every QueryResult of evaluate_query(query, relevant, k_max) the key
\* sets of precision_at_k, recall_at_k and ndcg_at_k are identical and equal to
\* {k in k_values : k <= k_max}; a larger configured k is absent, not an error.
C9_MetricKeysAreKValuesUpToKMax ==
    (result.fn = "evaluate_query" /\ ~result.raised) =>
        LET metrics == result.returned.metrics
            configured == {k_values[i] : i \in DOMAIN k_values}
            expected == {kk \in configured : kk <= result.k_max}
        IN  /\ DOMAIN metrics.precision_at_k = expected
            /\ DOMAIN metrics.recall_at_k = expected
            /\ DOMAIN metrics.ndcg_at_k = expected

C9_Witness ==
    /\ result.fn = "evaluate_query" /\ ~result.raised
    /\ k_values = <<1, 2>>
    /\ result.k_max = 1
    /\ DOMAIN result.returned.metrics.precision_at_k = {1}
    /\ result.returned.retrieved_docs /= <<>>

----------------------------------------------------------------------------
\* Properties of Evaluator.evaluate_batch

\* the sum of the values v[1], ..., v[n]
RECURSIVE Total(_, _)
Total(v, n) == IF n = 0 THEN Zero ELSE Plus(Total(v, n - 1), v[n])

\* x is the arithmetic mean of the N values v[1], ..., v[N]
IsMeanOf(x, v, N) == Reduced(<<x[1] * N, x[2]>>) = Total(v, N)

\* C8: for a non-empty batch of N test cases, aggregate.mrr is the sum of the
\* per-query mrr divided by N, and for every k in k_values the aggregate
\* precision_at_k[k], recall_at_k[k] and ndcg_at_k[k] are the arithmetic means
\* of the per-query values over all N QueryResults.
C8_AggregateIsMeanOfPerQuery ==
    (pc = "returned" /\ test_queries /= <<>>) =>
        LET N == Len(test_queries)
            aggregate == batch_result.aggregate_metrics
            per_query == [i \in 1..N |-> batch_result.query_results[i].metrics]
        IN  /\ IsMeanOf(aggregate.mrr, [i \in 1..N |-> per_query[i].mrr], N)
            /\ \A i \in DOMAIN k_values :
                 LET kk == k_values[i]
                 IN  /\ \A q \in 1..N :
                          /\ kk \in DOMAIN per_query[q].precision_at_k
                          /\ kk \in DOMAIN per_query[q].recall_at_k
                          /\ kk \in DOMAIN per_query[q].ndcg_at_k
                     /\ IsMeanOf(aggregate.precision_at_k[kk],
                                 [q \in 1..N |-> per_query[q].precision_at_k[kk]], N)
                     /\ IsMeanOf(aggregate.recall_at_k[kk],
                                 [q \in 1..N |-> per_query[q].recall_at_k[kk]], N)
                     /\ IsMeanOf(aggregate.ndcg_at_k[kk],
                                 [q \in 1..N |-> per_query[q].ndcg_at_k[kk]], N)

\* two queries with different scores, one of them 0.0, at two cutoffs
C8_Witness ==
    /\ pc = "returned"
    /\ Len(test_queries) = 2
    /\ k_values = <<1, 2>>
    /\ batch_result.query_results[1].metrics.mrr = <<1, 1>>
    /\ batch_result.query_results[2].metrics.mrr = Zero
    /\ batch_result.aggregate_metrics.mrr = <<1, 2>>
    /\ batch_result.query_results[1].metrics.precision_at_k[2] = <<1, 2>>
    /\ batch_result.aggregate_metrics.precision_at_k[2] = <<1, 4>>

\* C10: evaluate_batch returns exactly one QueryResult per test case, in
\* input order: query_results[i].query is test_cases[i].query, its relevant
\* set is the set of test_cases[i].relevant_docs, and num_queries is the
\* length of query_results.
C10_OneResultPerCaseInOrder ==
    pc = "returned" =>
        /\ Len(batch_result.query_results) = Len(test_queries)
        /\ batch_result.num_queries = Len(batch_result.query_results)
        /\ \A i \in DOMAIN test_queries :
             /\ batch_result.query_results[i].query = test_queries[i].query
             /\ batch_result.query_results[i].relevant_docs
                  = {test_queries[i].relevant_docs[j] :
                        j \in DOMAIN test_queries[i].relevant_docs}

C10_Witness ==
    /\ pc = "returned"
    /\ Len(batch_result.query_results) = 2
    /\ test_queries[1].query = "q2" /\ test_queries[2].query = "q1"
    /\ test_queries[1].relevant_docs = <<"a", "b", "a">>
    /\ test_queries[2].relevant_docs = <<"a">>
    /\ batch_result.query_results[1].relevant_docs = {"a", "b"}
    /\ batch_result.query_results[1].retrieved_docs
         /= batch_result.query_results[2].retrieved_docs

----------------------------------------------------------------------------
\* Properties of evaluate_batch on an empty batch

\* C11: evaluate_batch([]) does not raise and issues no store call; it returns
\* an aggregate with mrr = 0.0 and empty precision, recall and ndcg mappings,
\* an empty query_results list and num_queries = 0.
C11_EmptyBatchReturnsEmptyAggregate ==
    /\ (pc /= "idle" /\ test_queries = <<>>) =>
          /\ pc = "returned"
          /\ store_calls = <<>>
          /\ batch_result.query_results = <<>>
          /\ batch_result.num_queries = 0
          /\ batch_result.aggregate_metrics.mrr = Zero
          /\ DOMAIN batch_result.aggregate_metrics.precision_at_k = {}
          /\ DOMAIN batch_result.aggregate_metrics.recall_at_k = {}
          /\ DOMAIN batch_result.aggregate_metrics.ndcg_at_k = {}
    /\ pc = "raised" => test_queries /= <<>>

C11_Witness ==
    /\ pc = "returned"
    /\ test_queries = <<>>
    /\ batch_result.num_queries = 0
    /\ k_values /= <<>>

----------------------------------------------------------------------------
\* Properties of evaluate_query on an empty relevant set

\* C12: when relevant_docs is empty, evaluate_query returns (it does not
\* raise on its own) and, whatever the store answers and for every reported
\* K, precision, recall and ndcg are 0.0 and mrr is 0.0, with or without
\* relevance_scores.
C12_EmptyRelevantGivesZeroMetrics ==
    (/\ result.fn = "evaluate_query"
     /\ ~result.raised
     /\ result.returned.relevant_docs = {}) =>
        LET metrics == result.returned.metrics
        IN  /\ RatEq(metrics.mrr, Zero)
            /\ DOMAIN metrics.precision_at_k = MetricKeys(result.k_max)
            /\ \A kk \in MetricKeys(result.k_max) :
                  /\ RatEq(metrics.precision_at_k[kk], Zero)
                  /\ RatEq(metrics.recall_at_k[kk], Zero)
                  /\ RatEq(metrics.ndcg_at_k[kk], Zero)

\* graded scores are given and a scored document is retrieved, yet no document
\* is relevant
C12_Witness ==
    /\ result.fn = "evaluate_query"
    /\ ~result.raised
    /\ result.returned.relevant_docs = {}
    /\ result.relevance_scores /= <<>>
    /\ "a" \in {result.returned.retrieved_docs[i] :
                  i \in DOMAIN result.returned.retrieved_docs}
    /\ MetricKeys(result.k_max) /= {}
    /\ result.returned.metrics.mrr = Zero

----------------------------------------------------------------------------
\* Properties of ndcg_at_k under a move of a relevant entry to the top

\* C13 (as stated): under binary relevance and k >= 5, moving a relevant item
\* from rank 5 to rank 1, the other items keeping their relative order and
\* relevance, strictly increases ndcg_at_k.
C13_MoveToTopStrictlyIncreasesNdcg ==
    (result.fn = "ndcg_at_k" /\ result.moved) =>
        RatLess(result.before, result.value)

\* C13 (amended): under binary relevance and k >= 5, moving a relevant item
\* from rank 5 to rank 1 never decreases ndcg_at_k; it strictly increases it
\* when some item of the former ranks 1..4 is not relevant, and leaves it
\* unchanged when the former ranks 1..4 are all relevant.
C13_MoveToTopIncreasesNdcgUnlessTopIsRelevant ==
    (result.fn = "ndcg_at_k" /\ result.moved) =>
        IF \A i \in 2..5 : retrieved[i] \in relevant
        THEN RatEq(result.before, result.value)
        ELSE RatLess(result.before, result.value)

C13_Witness ==
    /\ result.fn = "ndcg_at_k"
    /\ result.moved
    /\ retrieved[1] \in relevant
    /\ \E i \in 2..5 : retrieved[i] \in relevant
    /\ \E i \in 2..5 : retrieved[i] \notin relevant
    /\ \A i, j \in DOMAIN retrieved : retrieved[i] = retrieved[j] => i = j
    /\ RatLess(result.before, result.value)

----------------------------------------------------------------------------
\* Properties of ndcg_at_k at its degenerate inputs

\* C14: ndcg_at_k never divides by zero: it returns exactly 0.0 when k <= 0,
\* when retrieved is empty, when relevant is empty and when the ideal DCG is 0
\* (as when every graded score is 0: a value other than 0.0 needs an ideal
\* list with a positive gain); the discount of a rank is never 0, because
\* ranks start at 1.
C14_NdcgNeverDividesByZero ==
    result.fn = "ndcg_at_k" =>
        LET relevance_scores == result.relevance_scores
        IN  /\ result.value[2] /= 0
            /\ (k <= 0 \/ retrieved = <<>> \/ relevant = {}) => result.value = Zero
            /\ result.value /= Zero =>
                  IF relevance_scores /= <<>>
                  THEN \E doc \in DOMAIN relevance_scores : relevance_scores[doc] > 0
                  ELSE relevant /= {}
            /\ (/\ relevance_scores /= <<>>
                /\ \A doc \in DOMAIN relevance_scores : relevance_scores[doc] = 0)
                  => result.value = Zero
            /\ \A i \in 1..Len(retrieved) : Discount(i) > 0

\* every graded score is 0 and a relevant document is ranked first
C14_Witness ==
    /\ result.fn = "ndcg_at_k"
    /\ k >= 1 /\ retrieved /= <<>> /\ relevant /= {}
    /\ retrieved[1] \in relevant
    /\ result.relevance_scores /= <<>>
    /\ \A doc \in DOMAIN result.relevance_scores : result.relevance_scores[doc] = 0
    /\ result.value = Zero

----------------------------------------------------------------------------
\* Properties of recall_at_k on a complete top k

\* C15: when the first k entries of retrieved are exactly the members of
\* relevant, each once and in any order, and k = |relevant| >= 1, then
\* recall_at_k is 1.0.
C15_CompleteTopKHasRecallOne ==
    (/\ result.fn = "recall_at_k"
     /\ k >= 1
     /\ k = Cardinality(relevant)
     /\ Len(retrieved) >= k
     /\ {retrieved[i] : i \in 1..k} = relevant) =>
        RatEq(result.value, One)

\* the two relevant documents lead a longer list, in the other order
C15_Witness ==
    /\ result.fn = "recall_at_k"
    /\ k = 2
    /\ relevant = {"a", "b"}
    /\ retrieved = <<"b", "a", "c">>
    /\ result.value = <<2, 2>>

----------------------------------------------------------------------------
\* Properties of SemanticRetriever.retrieve

\* C16: retrieve(query, k) returns exactly one item per item of the store's
\* answer, in the store's order, with nothing filtered, padded or re-sorted
\* (an answer shorter than k is passed through as it is), and each item's
\* similarity_score is 1 - distance, also when that is negative.
C16_RetrievePassesStoreAnswerThrough ==
    (result.fn = "retrieve" /\ ~result.raised) =>
        /\ result.response = Slice(store[result.query],
                                   IF result.k > 0 THEN result.k ELSE 0)
        /\ Len(result.results) = Len(result.response)
        /\ \A i \in DOMAIN result.response :
              /\ result.results[i].source =
                    metadata_source(result.response[i].metadata)
              /\ result.results[i].distance = result.response[i].distance
              /\ result.results[i].similarity_score =
                    1 - result.response[i].distance

\* the store holds fewer than k chunks and the last one lies at distance 2.0
C16_Witness ==
    /\ result.fn = "retrieve"
    /\ ~result.raised
    /\ result.k = 2
    /\ Len(result.response) = 1
    /\ Len(result.results) = 1
    /\ result.results[1].similarity_score = -1

----------------------------------------------------------------------------
\* Properties of RankedRetriever.retrieve_and_rank

\* the first n items of a list, none when n <= 0
FirstItems(list, n) ==
    IF n <= 0 THEN <<>>
    ELSE IF n >= Len(list) THEN list ELSE SubSeq(list, 1, n)

\* C17: for every min_similarity (also 0 and below) and every max_results that
\* is set (any integer, also 0), retrieve_and_rank returns the items of
\* retrieve(query, k) whose similarity is at least min_similarity, in the
\* store's order, cut to the first max_results items; it never re-sorts.
C17_RankedIsThresholdedAndTruncated ==
    (/\ result.fn = "retrieve_and_rank"
     /\ ~result.raised
     /\ result.max_results /= <<>>) =>
        result.results =
            FirstItems(SelectSeq(result.found,
                                 LAMBDA r : r.similarity_score >= result.min_similarity),
                       result.max_results[1])

----------------------------------------------------------------------------
\* Properties of the store calls of the retriever methods

\* C18: each retriever operation issues exactly one store query: retrieve
\* asks for exactly k results and the deduplicating retrieve_by_source for
\* exactly 3 * k, for every integer k, also k <= 0.
C18_OneStoreQueryPerRetrieverCall ==
    /\ result = NotCalled => store_calls = <<>>
    /\ result.fn = "retrieve" =>
          store_calls = <<(<<result.query, result.k>>)>>
    /\ (result.fn = "retrieve_by_source" /\ result.unique_sources) =>
          store_calls = <<(<<result.query, 3 * result.k>>)>>

\* a deduplicating call with a negative k that the store answered
C18_Witness ==
    /\ result.fn = "retrieve_by_source"
    /\ result.unique_sources
    /\ ~result.raised
    /\ result.k = -1
    /\ store_calls = <<(<<result.query, -3>>)>>

----------------------------------------------------------------------------
\* Properties of evaluate_batch when the store fails

\* C19: a failure of the store propagates out of evaluate_query and out of
\* evaluate_batch: nothing is returned (no batch result, and no QueryResult
\* for the failing test case), what is returned is never partly populated,
\* and no store call is issued for the test cases after the failing one.
C19_StoreFailureEndsTheBatch ==
    /\ pc = "raised" =>
          /\ batch_result = NotCalled
          /\ Len(query_results) < Len(test_queries)
          /\ Len(store_calls) = Len(query_results) + 1
          /\ store_calls[Len(store_calls)][1] =
                test_queries[Len(store_calls)].query
    /\ pc = "returned" =>
          /\ Len(store_calls) = Len(test_queries)
          /\ Len(batch_result.query_results) = Len(test_queries)
          /\ \A i \in DOMAIN batch_result.query_results :
                LET metrics == batch_result.query_results[i].metrics
                IN  /\ DOMAIN metrics.precision_at_k = MetricKeys(max_k_values)
                    /\ DOMAIN metrics.recall_at_k = MetricKeys(max_k_values)
                    /\ DOMAIN metrics.ndcg_at_k = MetricKeys(max_k_values)

\* the store fails on the first of two test cases: the second one never
\* reaches the store
C19_Witness ==
    /\ pc = "raised"
    /\ Len(test_queries) = 2
    /\ Len(store_calls) = 1
    /\ batch_result = NotCalled

----------------------------------------------------------------------------
\* Properties of evaluate_batch under a re-ordering of its test cases

----------------------------------------------------------------------------
\* Properties of what evaluate_query and evaluate_batch leave alone

\* the QueryResults evaluate_query can return for a test case in this state
QueryResultsOf(test_case) ==
    {evaluate_query(test_case.query, set_of(test_case.relevant_docs),
                    max_k_values, test_case.relevance_scores, order) :
        order \in IterationOrders(Enumerated(set_of(test_case.relevant_docs),
                                             test_case.relevance_scores))}

\* C21: evaluate_query and evaluate_batch, whether they return or fail, leave
\* the Evaluator's configuration (k_values, deduplicate, min_similarity), the
\* store behind the retriever and the caller's test cases unchanged, so a
\* failure of the store on one query does not alter the results computed
\* later for another query.
C21_CallsLeaveEvaluatorAndInputsUnchanged ==
    /\ [][/\ UNCHANGED <<k_values, deduplicate, min_similarity, store>>
          /\ pc = "loop" => test_queries' = test_queries]_vars
    /\ [](pc = "returned" =>
            \A i \in DOMAIN batch_result.query_results :
                batch_result.query_results[i] \in QueryResultsOf(test_queries[i]))

\* a deduplicating Evaluator with a threshold failed on the second of two
\* test cases and then evaluated another query
C21_Witness ==
    /\ pc = "returned"
    /\ result.fn = "evaluate_batch"
    /\ result.failed_at = 2
    /\ deduplicate
    /\ min_similarity = 1
    /\ test_queries[1].query /= result.failed[2].query
    /\ batch_result.query_results[1] \in QueryResultsOf(test_queries[1])
    /\ batch_result.query_results[1].retrieved_docs /= <<>>

----------------------------------------------------------------------------
\* Ranges of precision_at_k and mean_reciprocal_rank

\* C22: for every ranked list (duplicates allowed), every relevant set and
\* every integer k, precision_at_k and mean_reciprocal_rank lie in [0,1].
C22_PrecisionAndMrrInUnitInterval ==
    result.fn \in {"precision_at_k", "mean_reciprocal_rank"} =>
        InUnitInterval(result.value)

\* a list that repeats a relevant source reaches precision 1.0 and no more
C22_Witness ==
    /\ result.fn = "precision_at_k"
    /\ retrieved = <<"a", "a", "a">>
    /\ relevant = {"a"}
    /\ k = 2
    /\ result.value = <<2, 2>>

----------------------------------------------------------------------------
\* Properties of evaluate_query under the threshold 1.0

\* C23: if no retrieved item has a similarity of 1.0 or more, an Evaluator
\* with min_similarity = 1.0 yields an empty retrieved_docs list and
\* precision_at_k = 0.0 at every reported k, whatever the precision was
\* with min_similarity = 0.0.
C23_ThresholdOneEmptiesImperfectList ==
    (/\ result.fn = "evaluate_query"
     /\ ~result.raised
     /\ min_similarity = 1
     /\ \A i \in DOMAIN RetrievalStage : RetrievalStage[i].similarity_score < 1) =>
        /\ result.returned.retrieved_docs = <<>>
        /\ DOMAIN result.returned.metrics.precision_at_k = MetricKeys(result.k_max)
        /\ \A kk \in MetricKeys(result.k_max) :
              result.returned.metrics.precision_at_k[kk] = Zero

\* without the threshold the retrieved list would have had precision 1.0 at
\* some reported k
C23_Witness ==
    /\ result.fn = "evaluate_query"
    /\ ~result.raised
    /\ min_similarity = 1
    /\ RetrievalStage /= <<>>
    /\ \A i \in DOMAIN RetrievalStage : RetrievalStage[i].similarity_score < 1
    /\ \E kk \in MetricKeys(result.k_max) :
          /\ RatEq(precision_at_k(SourcesOf(RetrievalStage),
                                  result.returned.relevant_docs, kk), One)
          /\ result.returned.metrics.precision_at_k[kk] = Zero
    /\ result.returned.retrieved_docs = <<>>

----------------------------------------------------------------------------
\* Order of the evaluated list

\* sub[i..] can be read off seq[j..] from left to right, skipping entries
RECURSIVE IsSubsequenceFrom(_, _, _, _)
IsSubsequenceFrom(sub, seq, i, j) ==
    IF i > Len(sub) THEN TRUE
    ELSE IF j > Len(seq) THEN FALSE
    ELSE IF sub[i] = seq[j]
         THEN IsSubsequenceFrom(sub, seq, i + 1, j + 1)
         ELSE IsSubsequenceFrom(sub, seq, i, j + 1)

\* the sources of the store's answer, in the store's order
ResponseSources ==
    [i \in DOMAIN result.response |-> metadata_source(result.response[i].metadata)]

\* C24: the evaluation layer never re-sorts: in every QueryResult and every
\* configuration (plain, deduplicate, threshold, both), retrieved_docs is a
\* subsequence of the sources of the store's answer, in the store's order.
C24_RetrievedDocsKeepStoreOrder ==
    (result.fn = "evaluate_query" /\ ~result.raised) =>
        IsSubsequenceFrom(result.returned.retrieved_docs, ResponseSources, 1, 1)

\* deduplication and threshold are both on and two sources are evaluated
C24_Witness ==
    /\ result.fn = "evaluate_query"
    /\ ~result.raised
    /\ deduplicate
    /\ min_similarity = 1
    /\ ResponseSources = <<"b", "a">>
    /\ result.returned.retrieved_docs = <<"b", "a">>

----------------------------------------------------------------------------
\* Order of deduplication and threshold in evaluate_query

\* C25: with deduplicate = True and min_similarity > 0 the list evaluated by
\* evaluate_query is exactly the output of the deduplicating retrieval for
\* (query, k_max) with the items below the threshold removed: deduplication
\* first, threshold second, and no further retrieval refills the list.
C25_ThresholdFollowsDedupWithoutRefill ==
    (/\ result.fn = "evaluate_query"
     /\ ~result.raised
     /\ deduplicate
     /\ min_similarity > 0) =>
        /\ result.returned.retrieved_docs =
              SourcesOf(SelectSeq(DedupLoop(result.response, result.k_max, 1, {}, <<>>),
                                  LAMBDA r : r.similarity_score >= min_similarity))
        /\ store_calls = <<(<<"q1", 3 * result.k_max>>)>>

\* two sources survive deduplication, one of them at the threshold and one
\* below it: the list stays one short of k_max
C25_Witness ==
    /\ result.fn = "evaluate_query"
    /\ ~result.raised
    /\ deduplicate
    /\ min_similarity = 1
    /\ result.k_max = 2
    /\ Len(RetrievalStage) = 2
    /\ RetrievalStage[1].similarity_score = 1
    /\ RetrievalStage[2].similarity_score < 1
    /\ Len(result.returned.retrieved_docs) = 1
    /\ Len(store_calls) = 1

----------------------------------------------------------------------------
\* Precision and recall when k exceeds the retrieved list

----------------------------------------------------------------------------
\* Sequence of the store calls of evaluate_batch

\* C27: evaluate_batch is strictly sequential: it issues exactly one store
\* call per test case, in input order, each asking for max(k_values) items
\* (3 * max(k_values) when deduplicate is set); the call for case i + 1 is
\* issued only after the QueryResult of case i is complete; the aggregate is
\* computed once, after the QueryResult of the last case has been collected.
C27_BatchIsStrictlySequential ==
    /\ [](/\ \A i \in DOMAIN store_calls :
                /\ i <= Len(test_queries)
                /\ store_calls[i] =
                      <<test_queries[i].query,
                        IF deduplicate THEN 3 * max_k_values ELSE max_k_values>>
          /\ pc = "loop" =>
                Len(store_calls) = Len(query_results) /\ batch_result = NotCalled
          /\ pc = "raised" =>
                Len(store_calls) = Len(query_results) + 1 /\ batch_result = NotCalled
          /\ pc = "returned" =>
                /\ Len(store_calls) = Len(test_queries)
                /\ Len(query_results) = Len(test_queries)
                /\ batch_result.query_results = query_results)
    /\ [][/\ Len(store_calls') <= Len(store_calls) + 1
          /\ store_calls' /= store_calls =>
                /\ SubSeq(store_calls', 1, Len(store_calls)) = store_calls
                /\ Len(query_results) = Len(store_calls)
          /\ batch_result' /= batch_result =>
                /\ batch_result = NotCalled
                /\ Len(query_results') = Len(test_queries')]_vars

\* a deduplicating batch of two different queries has returned
C27_Witness ==
    /\ pc = "returned"
    /\ deduplicate
    /\ Len(test_queries) = 2
    /\ test_queries[1].query = "q2"
    /\ test_queries[2].query = "q1"
    /\ store_calls = <<(<<"q2", 3 * max_k_values>>), (<<"q1", 3 * max_k_values>>)>>

----------------------------------------------------------------------------
\* Ranges of recall_at_k and ndcg_at_k on lists without a repeated source

\* no source occurs twice in the list
NoRepeatedSource(list) ==
    \A i, j \in DOMAIN list : list[i] = list[j] => i = j

\* C28: when the retrieved list holds no repeated source (as the lists of a
\* deduplicating Evaluator do) and no relevance_scores are given,
\* recall_at_k and ndcg_at_k lie in [0,1] for every relevant set and every k.
C28_RecallAndBinaryNdcgInUnitIntervalWithoutRepeats ==
    NoRepeatedSource(retrieved) =>
        /\ result.fn = "recall_at_k" => InUnitInterval(result.value)
        /\ (result.fn = "ndcg_at_k" /\ result.relevance_scores = <<>>) =>
              InUnitInterval(result.value)

\* the one relevant document is ranked second
C28_Witness ==
    /\ result.fn = "ndcg_at_k"
    /\ result.relevance_scores = <<>>
    /\ retrieved = <<"c", "a">>
    /\ relevant = {"a"}
    /\ k = 2
    /\ result.value = <<63, 100>>

----------------------------------------------------------------------------
\* Range of ndcg_at_k under graded relevance

\* C29: with graded relevance, if the retrieved list holds no repeated
\* source, every member of relevant has an entry in relevance_scores and all
\* scores are non-negative, then ndcg_at_k lies in [0,1] for every k: the DCG
\* of the retrieved list never exceeds that of the ideal list, the scored
\* documents by descending score cut to k.
C29_GradedNdcgInUnitIntervalWithoutRepeats ==
    (/\ result.fn = "ndcg_at_k"
     /\ result.relevance_scores /= <<>>
     /\ NoRepeatedSource(retrieved)
     /\ relevant \subseteq DOMAIN result.relevance_scores
     /\ \A doc \in DOMAIN result.relevance_scores :
           result.relevance_scores[doc] >= 0) =>
        /\ InUnitInterval(result.value)
        /\ \A order \in IterationOrders(DOMAIN result.relevance_scores) :
              dcg_at_k(retrieved, relevant, k, result.relevance_scores) <=
                  dcg_at_k(ideal_docs(relevant, k, result.relevance_scores, order),
                           relevant, k, result.relevance_scores)

\* the lower-scored document is ranked first, and a scored document that is
\* not relevant is part of the ideal list
C29_Witness ==
    /\ result.fn = "ndcg_at_k"
    /\ retrieved = <<"b", "a">>
    /\ relevant = {"a", "b"}
    /\ k = 2
    /\ result.relevance_scores = [a |-> 2, b |-> 1, c |-> 1]
    /\ RatLess(Zero, result.value)
    /\ RatLess(result.value, One)

----------------------------------------------------------------------------
\* ndcg_at_k of a perfect binary ranking

\* C30: with binary relevance, if the retrieved list holds no repeated source
\* and its first min(k, |relevant|) entries are all members of a non-empty
\* relevant set, then ndcg_at_k = 1.0 for every k >= 1, also when fewer than
\* k relevant documents exist.
C30_PerfectBinaryRankingHasNdcgOne ==
    (/\ result.fn = "ndcg_at_k"
     /\ result.relevance_scores = <<>>
     /\ k >= 1
     /\ relevant /= {}
     /\ NoRepeatedSource(retrieved)
     /\ LET m == IF k < Cardinality(relevant) THEN k ELSE Cardinality(relevant)
        IN  /\ Len(retrieved) >= m
            /\ \A i \in 1..m : retrieved[i] \in relevant) =>
        RatEq(result.value, One)

\* the two relevant documents lead the list and k = 3
C30_Witness ==
    /\ result.fn = "ndcg_at_k"
    /\ result.relevance_scores = <<>>
    /\ retrieved = <<"b", "a", "c">>
    /\ relevant = {"a", "b"}
    /\ k = 3
    /\ result.value = <<163, 163>>
====
